---- MODULE Spec2Model ----
(***************************************************************************)
(* AgriGuard: the NEAR insurance contract (AgriGuardContract) together     *)
(* with the mock USDC token used by its sandbox tests, the off-chain       *)
(* weather automation that feeds it, and the Solidity contract             *)
(* AgriGuardInsurance.                                                     *)
(*                                                                         *)
(* A state-changing call runs to completion or panics; a panic (a failed   *)
(* assert or a thrown Error) discards every write of the call.  Each       *)
(* action below is one call: it either commits the handler's writes or     *)
(* leaves the contract state as it was.  The variable `last` records the   *)
(* call that was made and what it returned.                                *)
(*                                                                         *)
(* Amounts are integers in micro-USDC.  Dates are day numbers.             *)
(* Latitudes and longitudes are in units of 1/10000 degree.                *)
(***************************************************************************)
EXTENDS Integers, Sequences, FiniteSets, TLC

VARIABLES
    policies,               \* LookupMap<InsurancePolicy>, keyed by the number in policy_<n>
    claims,                 \* LookupMap<Claim>, keyed by the number in claim_<n>
    totalPolicies,
    totalClaims,
    totalPremiumsCollected,
    totalClaimsPaid,
    owner,
    payouts,                \* ft_transfer promises issued by triggerPayout, in order
    balances,               \* MockUSDC.balances
    totalSupply,            \* MockUSDC.totalSupply
    tokenAccount,           \* the account the MockUSDC contract is deployed at
    inflight,               \* ft_on_transfer promises created by MockUSDC.ft_transfer_call
    tokenOps,               \* number of token calls that changed a balance
    settlements,            \* number of ft_on_transfer calls that credited a premium
    authorizedOracles,      \* LookupMap<boolean>
    weatherDataStorage,     \* LookupMap<WeatherData>, keyed by <<stationId, timestamp>>
    cycles,                 \* the runs of WeatherAutomation.processWeatherAndPolicies
    blockTimestamp,         \* the time of the current block, in days
    insurance,              \* the storage of the Solidity contract AgriGuardInsurance
    last                    \* the last call: its operation, whether it completed, its return value

oracleVars == <<authorizedOracles, weatherDataStorage>>
contractVars == <<policies, claims, totalPolicies, totalClaims, totalPremiumsCollected,
                  totalClaimsPaid, owner, payouts, settlements, oracleVars>>
tokenVars == <<balances, totalSupply, tokenAccount, inflight, tokenOps>>
vars == <<policies, claims, totalPolicies, totalClaims, totalPremiumsCollected,
          totalClaimsPaid, owner, payouts, balances, totalSupply, tokenAccount,
          inflight, tokenOps, settlements, authorizedOracles, weatherDataStorage,
          cycles, blockTimestamp, insurance, last>>

----------------------------------------------------------------------------
(* Program constants *)

USDC_CONTRACT == "usdc.fakes.testnet"
BASIS_POINTS == 10000
MIN_PREMIUM_USDC == 1000000
DEFAULT_PREMIUM_RATE == 500
MIN_DURATION_DAYS == 30
MAX_DURATION_DAYS == 365
TEMP_PAYOUT_PCT == 50
RAIN_PAYOUT_PCT == 60
RAINFALL_THRESHOLD == 30
MICRO == 1000000                      \* micro-USDC in one USDC
MAX_COVERAGE_WHOLE_USDC == 1000000    \* MAX_COVERAGE_USDC = 1000000000000 micro-USDC

(* Accounts *)
Contract == "agriguard-contract"      \* near.currentAccountId()
MockAccount == "usdc-mock"            \* where the sandbox tests deploy MockUSDC
Users == {Contract, "farmer"}         \* accounts that own policies
Callers == {"farmer", "admin"}        \* callers of the methods that check no caller
TransferCallers == {USDC_CONTRACT, "farmer", "admin"}
PayoutCallers == {Contract, "farmer", "admin"}

(* Bounds *)
MaxPolicies == 1
MaxClaims == 2
MaxSettlements == 2
MaxPayouts == 2
MaxInFlight == 1
MaxTokenOps == 3
MaxCreated == 2
MaxCycles == 2

Statuses == {"pending", "active", "expired", "claimed"}
NoId == 0 - 1                           \* undefined
PolicyIds == 0..MaxPolicies
ClaimIds == 1..MaxClaims

Amounts == {1000000, 5500000, 9000000}
Coverages == {100000000}
Crops == {"wheat"}
Lats == {407128}
Lngs == {0 - 740060}
Params == {[minTemp |-> 5, maxTemp |-> 30, minRainfall |-> 300, maxRainfall |-> 1000]}
Today == 50 + 50
StartDates == {Today}
EndDates == {Today + 200}
Premiums == {5500000}
Temps == {20, 45}
Rains == {50, 500}
ActualRainfalls == {10, 30}
Recipients == {"farmer"}
Supplies == {9000000}
TokenUsers == {"farmer", Contract}
TokenAmounts == {1000000, 5500000}
Deposits == {0, 1}
PayoutAmounts == {30000000}
EvalUsers == {Contract}               \* the owner whose claims triggerPayout lets through
EvalCoverages == {100000001}
EvalTemps == {0, 30, 45}
EvalRains == {50, 300, 2000}

\* createPolicy receives coverageAmount as a decimal string, which may name
\* an amount beyond MAX_COVERAGE_USDC.  The string is modelled by the pair
\* of its whole USDC and its remaining micro-USDC.
Decimal(amount) == [whole |-> amount \div MICRO, micro |-> amount % MICRO]

\* Arguments of createPolicy on both sides of every check it makes
CreateUsers == {"farmer"}
CreateCrops == {"wheat", "rice", "mango"}
CreateLats == {50000, 407128, 910000}
CreateLngs == {0 - 740060, 1810000}
CreateCoverages == {Decimal(999999), Decimal(1000000), Decimal(100000000),
                    [whole |-> MAX_COVERAGE_WHOLE_USDC, micro |-> 1]}
CreateParams == {[minTemp |-> 5, maxTemp |-> 30, minRainfall |-> 300, maxRainfall |-> 1000],
                 [minTemp |-> 30, maxTemp |-> 30, minRainfall |-> 300, maxRainfall |-> 1000],
                 [minTemp |-> 5, maxTemp |-> 30, minRainfall |-> 1000, maxRainfall |-> 300]}
CreateStarts == {Today - 1, Today, Today + 1}
CreateEnds == {Today + 29, Today + 30, Today + 365, Today + 366}

----------------------------------------------------------------------------
(* Arithmetic on amounts.  The contract computes on BigInt; a * b \div c   *)
(* is evaluated here without forming the product a * b.                    *)

MulDiv(a, b, c) == (a \div c) * b + ((a % c) * b) \div c

Max(a, b) == IF a >= b THEN a ELSE b

Abs(x) == IF x < 0 THEN -x ELSE x

(* Map helpers: LookupMap.get returns null for a missing key *)
Has(map, k) == k \in DOMAIN map
Put(map, k, v) == [i \in DOMAIN map \cup {k} |-> IF i = k THEN v ELSE map[i]]
EmptyMap == [i \in {} |-> 0]


(* The outcome of a call: ok is FALSE when the call panicked, ret is the   *)
(* value it returned (0 when it returned nothing or panicked).             *)
Call(op, ok, ret) == [op |-> op, ok |-> ok, ret |-> ret]

----------------------------------------------------------------------------
(* createPolicy *)

cropRiskMultipliersFlat(cropType) == 10

cropRiskMultipliers(cropType) ==       \* in tenths
    CASE cropType = "wheat" -> 10
      [] cropType = "corn" -> 12
      [] cropType = "rice" -> 15
      [] cropType = "soybeans" -> 11
      [] cropType = "cotton" -> 13
      [] cropType = "barley" -> 10
      [] cropType = "oats" -> 10
      [] cropType = "tomatoes" -> 14
      [] cropType = "potatoes" -> 12
      [] cropType = "onions" -> 12
      [] OTHER -> 10

validCrops == {"wheat", "corn", "rice", "soybeans", "cotton", "barley", "oats",
               "tomatoes", "potatoes", "onions"}

calculateGeographicalRisk(lat) ==      \* in tenths
    LET a == Abs(lat) IN
    IF a < 100000 THEN 13
    ELSE IF a < 235000 THEN 12
    ELSE IF a < 350000 THEN 10
    ELSE IF a < 500000 THEN 11
    ELSE 12

calculatePremium(coverageAmount, cropType, lat) ==
    LET rate1 == (DEFAULT_PREMIUM_RATE * cropRiskMultipliers(cropType)) \div 10
        rate2 == (rate1 * calculateGeographicalRisk(lat)) \div 10
        premium == MulDiv(coverageAmount, rate2, BASIS_POINTS)
    IN IF premium < MIN_PREMIUM_USDC THEN MIN_PREMIUM_USDC ELSE premium

\* BigInt(coverageAmount), for the amounts the contract goes on to store
BigInt(str) == str.whole * MICRO + str.micro

\* coverage >= MIN_PREMIUM_USDC
AtLeastMinCoverage(coverage) ==
    \/ coverage.whole > MIN_PREMIUM_USDC \div MICRO
    \/ coverage.whole = MIN_PREMIUM_USDC \div MICRO /\ coverage.micro >= MIN_PREMIUM_USDC % MICRO

\* coverage <= MAX_COVERAGE_USDC
WithinMaxCoverage(coverage) ==
    \/ coverage.whole < MAX_COVERAGE_WHOLE_USDC
    \/ coverage.whole = MAX_COVERAGE_WHOLE_USDC /\ coverage.micro = 0

validatePolicyInputs(cropType, lat, lng, coverageAmount, startDate, endDate, wp, now) ==
    /\ AtLeastMinCoverage(coverageAmount)
    /\ WithinMaxCoverage(coverageAmount)
    /\ cropType \in validCrops
    /\ lat >= -900000 /\ lat <= 900000
    /\ lng >= -1800000 /\ lng <= 1800000
    /\ wp.minTemp < wp.maxTemp
    /\ wp.minRainfall < wp.maxRainfall
    /\ wp.minTemp >= -50 /\ wp.maxTemp <= 60
    /\ wp.minRainfall >= 0 /\ wp.maxRainfall <= 5000
    /\ startDate >= now
    /\ endDate > startDate
    /\ endDate - startDate >= MIN_DURATION_DAYS
    /\ endDate - startDate <= MAX_DURATION_DAYS

NewPolicy(farmer, cropType, lat, lng, coverageAmount, premium, startDate, endDate, wp) ==
    [farmer |-> farmer, cropType |-> cropType, lat |-> lat, lng |-> lng,
     coverageAmount |-> coverageAmount, premium |-> premium,
     startDate |-> startDate, endDate |-> endDate, weatherParameters |-> wp,
     isActive |-> FALSE, claimsPaid |-> 0, premiumPaid |-> 0,
     status |-> "pending"]

createPolicy(pred, cropType, lat, lng, coverageAmount, startDate, endDate, wp) ==
    /\ IF validatePolicyInputs(cropType, lat, lng, coverageAmount, startDate, endDate, wp, blockTimestamp)
       THEN LET coverage == BigInt(coverageAmount)
                premium == calculatePremium(coverage, cropType, lat)
                policyId == totalPolicies + 1
            IN /\ policies' = Put(policies, policyId,
                                  NewPolicy(pred, cropType, lat, lng, coverage, premium,
                                            startDate, endDate, wp))
               /\ totalPolicies' = totalPolicies + 1
               /\ last' = Call("createPolicy", TRUE, policyId)
       ELSE /\ UNCHANGED <<policies, totalPolicies>>
            /\ last' = Call("createPolicy", FALSE, 0)
    /\ UNCHANGED <<claims, totalClaims, totalPremiumsCollected, totalClaimsPaid,
                   owner, payouts, settlements>>
    /\ UNCHANGED tokenVars
    /\ UNCHANGED oracleVars

(* create_policy: the identifier is policy_<totalPolicies> with the value  *)
(* totalPolicies had before the increment.                                 *)
ZeroParams == [minTemp |-> 0, maxTemp |-> 0, minRainfall |-> 0, maxRainfall |-> 0]

create_policy(pred, farmer_id, crop_type, coverage_amount, premium_amount, season_start, season_end) ==
    /\ LET policyId == totalPolicies IN
       /\ policies' = Put(policies, policyId,
                          NewPolicy(farmer_id, crop_type, 0, 0, coverage_amount,
                                    premium_amount, season_start, season_end, ZeroParams))
       /\ totalPolicies' = totalPolicies + 1
       /\ last' = Call("create_policy", TRUE, policyId)
    /\ UNCHANGED <<claims, totalClaims, totalPremiumsCollected, totalClaimsPaid,
                   owner, payouts, settlements>>
    /\ UNCHANGED tokenVars
    /\ UNCHANGED oracleVars

----------------------------------------------------------------------------
(* ft_on_transfer *)

\* msg: a string that JSON.parse rejects, or a JSON object whose policyId
\* is undefined or names policy_<k>
Msg(k) == [json |-> TRUE, policyId |-> k]
BadMsg == [json |-> FALSE, policyId |-> NoId]
Msgs == {BadMsg, Msg(NoId)} \cup {Msg(k) : k \in PolicyIds}
TokenMsgs == {BadMsg, Msg(0), Msg(1)}

\* The checks of the handler, in the order it makes them
isTokenContractAnyCaller(pred) == TRUE
isTokenContract(pred) == pred = USDC_CONTRACT

isPolicyOwnerAnyPayer(policy, sender_id) == TRUE
isPolicyOwner(policy, sender_id) == policy.farmer = sender_id

isSufficientPartial(amount, premium) == amount > 0
isSufficient(amount, premium) == ~(amount < premium)

\* The policy record after a premium payment
Activated(policy, amount) ==
    [policy EXCEPT !.premiumPaid = amount, !.status = "active", !.isActive = TRUE]

\* The excess returned to the payer
excessKept(amount, premium) == 0
excess(amount, premium) == amount - premium

\* The handler's outcome on the current state: whether it completes, what it
\* returns, and the policy map and premium total it leaves.
OnTransfer(pred, sender_id, amount, msg) ==
    LET same(ok, ret) == [ok |-> ok, ret |-> ret, policies |-> policies,
                          total |-> totalPremiumsCollected, credited |-> FALSE]
    IN
    IF ~isTokenContract(pred) THEN same(FALSE, 0)
    ELSE IF ~msg.json THEN same(TRUE, amount)
    ELSE IF ~Has(policies, msg.policyId) THEN same(TRUE, amount)
    ELSE LET policy == policies[msg.policyId] IN
         IF ~isPolicyOwner(policy, sender_id) THEN same(TRUE, amount)
         ELSE IF ~isSufficient(amount, policy.premium) THEN same(TRUE, amount)
         ELSE [ok |-> TRUE,
               ret |-> excess(amount, policy.premium),
               policies |-> Put(policies, msg.policyId, Activated(policy, amount)),
               total |-> totalPremiumsCollected + amount,
               credited |-> TRUE]

\* One execution of the handler on the contract's state
RunOnTransfer(pred, sender_id, amount, msg) ==
    LET r == OnTransfer(pred, sender_id, amount, msg) IN
    /\ r.credited => settlements < MaxSettlements
    /\ last' = Call("ft_on_transfer", r.ok, r.ret)
    /\ policies' = r.policies
    /\ totalPremiumsCollected' = r.total
    /\ settlements' = IF r.credited THEN settlements + 1 ELSE settlements
    /\ UNCHANGED <<claims, totalPolicies, totalClaims, totalClaimsPaid, owner, payouts>>
    /\ UNCHANGED oracleVars

\* A call of ft_on_transfer made directly by the account pred
ft_on_transfer(pred, sender_id, amount, msg) ==
    /\ RunOnTransfer(pred, sender_id, amount, msg)
    /\ UNCHANGED tokenVars

----------------------------------------------------------------------------
(* Claims and payouts *)

\* triggerPayout's guard: the predecessor of the running call must be the
\* contract account itself
triggerPayoutAnyCaller(pred) == TRUE
triggerPayoutAllowed(pred) == pred = Contract

Payout(recipient, amount, claimId) ==
    [recipient |-> recipient, amount |-> amount, claimId |-> claimId,
     outcome |-> "pending"]

\* processClaimAutomatically: the payout percentage, 0 when nothing is breached
payoutPercentageSum(params, temperature, rainfall) ==
    (IF temperature < params.minTemp \/ temperature > params.maxTemp
     THEN TEMP_PAYOUT_PCT ELSE 0)
    + (IF rainfall < params.minRainfall \/ rainfall > params.maxRainfall
       THEN RAIN_PAYOUT_PCT ELSE 0)
payoutPercentage(params, temperature, rainfall) ==
    LET p1 == IF temperature < params.minTemp \/ temperature > params.maxTemp
              THEN Max(0, TEMP_PAYOUT_PCT) ELSE 0
    IN IF rainfall < params.minRainfall \/ rainfall > params.maxRainfall
       THEN Max(p1, RAIN_PAYOUT_PCT) ELSE p1

shouldPayOnThreshold(params, temperature, rainfall) ==
    \/ temperature <= params.minTemp \/ temperature >= params.maxTemp
    \/ rainfall <= params.minRainfall \/ rainfall >= params.maxRainfall
shouldPay(params, temperature, rainfall) ==
    \/ temperature < params.minTemp \/ temperature > params.maxTemp
    \/ rainfall < params.minRainfall \/ rainfall > params.maxRainfall

NewClaim(policyId, farmer, temperature, rainfall) ==
    [policyId |-> policyId, farmer |-> farmer, claimAmount |-> 0,
     temperature |-> temperature, rainfall |-> rainfall, status |-> "pending"]

\* executePayout's writes for an approved claim
PaidClaimLeftApproved(claim, claimAmount) ==
    [claim EXCEPT !.claimAmount = claimAmount, !.status = "approved"]
PaidClaim(claim, claimAmount) ==
    [claim EXCEPT !.claimAmount = claimAmount, !.status = "paid"]

PaidPolicyNotCounted(policy, amount) == [policy EXCEPT !.status = "claimed"]
PaidPolicy(policy, amount) ==
    [policy EXCEPT !.claimsPaid = policy.claimsPaid + amount, !.status = "claimed"]

fileClaim(pred, policyId, temperature, rainfall) ==
    /\ totalClaims < MaxClaims
    /\ IF ~Has(policies, policyId) \/ policies[policyId].farmer # pred
          \/ ~policies[policyId].isActive
       THEN /\ last' = Call("fileClaim", FALSE, 0)
            /\ UNCHANGED <<policies, claims, totalClaims, totalClaimsPaid, payouts>>
       ELSE LET policy == policies[policyId]
                claimId == totalClaims + 1
                claim == NewClaim(policyId, pred, temperature, rainfall)
                pct == payoutPercentage(policy.weatherParameters, temperature, rainfall)
                claimAmount == MulDiv(policy.coverageAmount, pct, 100)
            IN IF ~shouldPay(policy.weatherParameters, temperature, rainfall)
               THEN /\ claims' = Put(claims, claimId, claim)
                    /\ totalClaims' = totalClaims + 1
                    /\ last' = Call("fileClaim", TRUE, claimId)
                    /\ UNCHANGED <<policies, totalClaimsPaid, payouts>>
               ELSE IF ~triggerPayoutAllowed(pred)
               THEN \* the assert in triggerPayout fails: the whole call is undone
                    /\ last' = Call("fileClaim", FALSE, 0)
                    /\ UNCHANGED <<policies, claims, totalClaims, totalClaimsPaid, payouts>>
               ELSE /\ Len(payouts) < MaxPayouts
                    /\ payouts' = Append(payouts, Payout(pred, claimAmount, claimId))
                    /\ claims' = Put(claims, claimId, PaidClaim(claim, claimAmount))
                    /\ policies' = Put(policies, policyId, PaidPolicy(policy, claimAmount))
                    /\ totalClaimsPaid' = totalClaimsPaid + claimAmount
                    /\ totalClaims' = totalClaims + 1
                    /\ last' = Call("fileClaim", TRUE, claimId)
    /\ UNCHANGED <<totalPolicies, totalPremiumsCollected, owner, settlements>>
    /\ UNCHANGED tokenVars
    /\ UNCHANGED oracleVars

triggerPayout(pred, recipient, amount) ==
    /\ IF triggerPayoutAllowed(pred)
       THEN /\ Len(payouts) < MaxPayouts
            /\ payouts' = Append(payouts, Payout(recipient, amount, NoId))
            /\ last' = Call("triggerPayout", TRUE, 0)
       ELSE /\ UNCHANGED payouts
            /\ last' = Call("triggerPayout", FALSE, 0)
    /\ UNCHANGED <<policies, claims, totalPolicies, totalClaims, totalPremiumsCollected,
                   totalClaimsPaid, owner, settlements>>
    /\ UNCHANGED tokenVars
    /\ UNCHANGED oracleVars

adminTriggerPayoutAnyStatus(pred, claimId) ==
    /\ pred = owner
    /\ Has(claims, claimId)
    /\ triggerPayoutAllowed(pred)

adminTriggerPayoutPaidToo(pred, claimId) ==
    /\ pred = owner
    /\ Has(claims, claimId)
    /\ claims[claimId].status \in {"approved", "paid"}
    /\ triggerPayoutAllowed(pred)

adminTriggerPayoutAllowed(pred, claimId) ==
    /\ pred = owner
    /\ Has(claims, claimId)
    /\ claims[claimId].status = "approved"
    /\ triggerPayoutAllowed(pred)

adminTriggerPayout(pred, recipient, amount, claimId) ==
    /\ IF adminTriggerPayoutAllowed(pred, claimId)
       THEN LET claim == claims[claimId] IN
            /\ Len(payouts) < MaxPayouts
            /\ payouts' = Append(payouts, Payout(recipient, amount, claimId))
            /\ claims' = Put(claims, claimId, [claim EXCEPT !.status = "paid"])
            /\ policies' = IF Has(policies, claim.policyId)
                           THEN Put(policies, claim.policyId,
                                    PaidPolicy(policies[claim.policyId], amount))
                           ELSE policies
            /\ totalClaimsPaid' = totalClaimsPaid + amount
            /\ last' = Call("adminTriggerPayout", TRUE, 0)
       ELSE /\ UNCHANGED <<policies, claims, totalClaimsPaid, payouts>>
            /\ last' = Call("adminTriggerPayout", FALSE, 0)
    /\ UNCHANGED <<totalPolicies, totalClaims, totalPremiumsCollected, owner, settlements>>
    /\ UNCHANGED tokenVars
    /\ UNCHANGED oracleVars

----------------------------------------------------------------------------
(* process_policy_claims and update_policy_status: no caller check *)

process_policy_claims(pred, policy_id, actual_rainfall) ==
    /\ IF ~Has(policies, policy_id) \/ policies[policy_id].status # "pending"
       THEN /\ UNCHANGED policies
            /\ last' = Call("process_policy_claims", FALSE, 0)
       ELSE IF actual_rainfall >= RAINFALL_THRESHOLD
       THEN /\ UNCHANGED policies
            /\ last' = Call("process_policy_claims", TRUE, 0)
       ELSE /\ policies' = Put(policies, policy_id,
                               [policies[policy_id] EXCEPT !.status = "claimed"])
            /\ last' = Call("process_policy_claims", TRUE, 1)
    /\ UNCHANGED <<claims, totalPolicies, totalClaims, totalPremiumsCollected,
                   totalClaimsPaid, owner, payouts, settlements>>
    /\ UNCHANGED tokenVars
    /\ UNCHANGED oracleVars

update_policy_status(pred, policy_id, new_status) ==
    /\ IF ~Has(policies, policy_id)
       THEN /\ UNCHANGED policies
            /\ last' = Call("update_policy_status", FALSE, 0)
       ELSE /\ policies' = Put(policies, policy_id,
                               [policies[policy_id] EXCEPT !.status = new_status])
            /\ last' = Call("update_policy_status", TRUE, 0)
    /\ UNCHANGED <<claims, totalPolicies, totalClaims, totalPremiumsCollected,
                   totalClaimsPaid, owner, payouts, settlements>>
    /\ UNCHANGED tokenVars
    /\ UNCHANGED oracleVars

----------------------------------------------------------------------------
(* Oracle registry and weather data *)

INIT_ORACLE == "weather-oracle.testnet"
OracleIds == {INIT_ORACLE, "oracle"}
OracleCallers == {Contract, "admin", INIT_ORACLE, "oracle"}
Stations == {"WXM_001"}
Timestamps == {1, 2}
NoCid == "undefined"
Cids == {"bafy1", "bafy2"}
SubmitTemps == {25}
SubmitRains == {500}

\* authorizedOracles.get(caller) === true
isAuthorizedOracleAnyCaller(caller) == TRUE
isAuthorizedOracleEverAdded(caller) == Has(authorizedOracles, caller)
isAuthorizedOracle(caller) ==
    Has(authorizedOracles, caller) /\ authorizedOracles[caller] = TRUE

isOwner(pred) == pred = owner

\* The stored record; humidity and windSpeed are stored and never read
WeatherData(stationId, timestamp, temperature, rainfall, filecoinCid) ==
    [stationId |-> stationId, timestamp |-> timestamp, temperature |-> temperature,
     rainfall |-> rainfall, filecoinCid |-> filecoinCid]

\* submitWeatherData at block time now; checkAutomaticClaims only logs
submitWeatherData(pred, now, stationId, temperature, rainfall, filecoinCid) ==
    /\ IF isAuthorizedOracle(pred)
       THEN /\ weatherDataStorage' =
                   Put(weatherDataStorage, <<stationId, now>>,
                       WeatherData(stationId, now, temperature, rainfall, filecoinCid))
            /\ last' = Call("submitWeatherData", TRUE, 0)
       ELSE /\ UNCHANGED weatherDataStorage
            /\ last' = Call("submitWeatherData", FALSE, 0)
    /\ UNCHANGED <<policies, claims, totalPolicies, totalClaims, totalPremiumsCollected,
                   totalClaimsPaid, owner, payouts, settlements, authorizedOracles>>
    /\ UNCHANGED tokenVars

\* receive_weather; updatePoliciesWithWeatherCid only logs
receive_weather(pred, stationId, timestamp, filecoinCid) ==
    /\ IF isAuthorizedOracle(pred)
       THEN /\ weatherDataStorage' =
                   Put(weatherDataStorage, <<stationId, timestamp>>,
                       WeatherData(stationId, timestamp, 0, 0, filecoinCid))
            /\ last' = Call("receive_weather", TRUE, 0)
       ELSE /\ UNCHANGED weatherDataStorage
            /\ last' = Call("receive_weather", FALSE, 0)
    /\ UNCHANGED <<policies, claims, totalPolicies, totalClaims, totalPremiumsCollected,
                   totalClaimsPaid, owner, payouts, settlements, authorizedOracles>>
    /\ UNCHANGED tokenVars

addOracle(pred, oracle) ==
    /\ IF isOwner(pred)
       THEN /\ authorizedOracles' = Put(authorizedOracles, oracle, TRUE)
            /\ last' = Call("addOracle", TRUE, 0)
       ELSE /\ UNCHANGED authorizedOracles
            /\ last' = Call("addOracle", FALSE, 0)
    /\ UNCHANGED <<policies, claims, totalPolicies, totalClaims, totalPremiumsCollected,
                   totalClaimsPaid, owner, payouts, settlements, weatherDataStorage>>
    /\ UNCHANGED tokenVars

removeOracle(pred, oracle) ==
    /\ IF isOwner(pred)
       THEN /\ authorizedOracles' = Put(authorizedOracles, oracle, FALSE)
            /\ last' = Call("removeOracle", TRUE, 0)
       ELSE /\ UNCHANGED authorizedOracles
            /\ last' = Call("removeOracle", FALSE, 0)
    /\ UNCHANGED <<policies, claims, totalPolicies, totalClaims, totalPremiumsCollected,
                   totalClaimsPaid, owner, payouts, settlements, weatherDataStorage>>
    /\ UNCHANGED tokenVars

----------------------------------------------------------------------------
(* MockUSDC *)

Balance(a) == IF Has(balances, a) THEN balances[a] ELSE 0

\* internalTransfer: the two balances are read first, then the sender's and
\* the receiver's are written, in this order
internalTransferAllowed(senderId, amount) == Balance(senderId) >= amount

internalTransfer(senderId, receiverId, amount) ==
    LET newSenderBalance == Balance(senderId) - amount
        newReceiverBalance == Balance(receiverId) + amount
    IN Put(Put(balances, senderId, newSenderBalance), receiverId, newReceiverBalance)

storage_deposit(pred, account_id) ==
    /\ balances' = IF Has(balances, account_id) THEN balances
                   ELSE Put(balances, account_id, 0)
    /\ last' = Call("storage_deposit", TRUE, 0)
    /\ UNCHANGED <<totalSupply, tokenAccount, inflight, tokenOps>>
    /\ UNCHANGED contractVars

ft_transfer(pred, receiver_id, amount, deposit) ==
    /\ IF deposit = 1 /\ internalTransferAllowed(pred, amount)
       THEN /\ tokenOps < MaxTokenOps
            /\ balances' = internalTransfer(pred, receiver_id, amount)
            /\ tokenOps' = tokenOps + 1
            /\ last' = Call("ft_transfer", TRUE, 0)
       ELSE /\ UNCHANGED <<balances, tokenOps>>
            /\ last' = Call("ft_transfer", FALSE, 0)
    /\ UNCHANGED <<totalSupply, tokenAccount, inflight>>
    /\ UNCHANGED contractVars

\* The promise created by ft_transfer_call: ft_on_transfer on the receiver
Promise(receiver_id, sender_id, amount, msg) ==
    [receiver_id |-> receiver_id, sender_id |-> sender_id, amount |-> amount,
     msg |-> msg]

ft_transfer_call(pred, receiver_id, amount, msg, deposit) ==
    /\ IF deposit = 1 /\ internalTransferAllowed(pred, amount)
       THEN /\ Len(inflight) < MaxInFlight
            /\ tokenOps < MaxTokenOps
            /\ balances' = internalTransfer(pred, receiver_id, amount)
            /\ inflight' = Append(inflight, Promise(receiver_id, pred, amount, msg))
            /\ tokenOps' = tokenOps + 1
            /\ last' = Call("ft_transfer_call", TRUE, 0)
       ELSE /\ UNCHANGED <<balances, inflight, tokenOps>>
            /\ last' = Call("ft_transfer_call", FALSE, 0)
    /\ UNCHANGED <<totalSupply, tokenAccount>>
    /\ UNCHANGED contractVars

\* The promise runs: ft_on_transfer executes on the receiver with the token
\* contract as predecessor.  MockUSDC registers no callback on the result,
\* so whatever the handler returns, no balance changes.
resolveTransfer(promise, refund) == balances

deliver ==
    /\ inflight # <<>>
    /\ LET p == Head(inflight) IN
       /\ p.receiver_id = Contract
       /\ RunOnTransfer(tokenAccount, p.sender_id, p.amount, p.msg)
       /\ balances' = resolveTransfer(p, last'.ret)
       /\ inflight' = Tail(inflight)
    /\ UNCHANGED <<totalSupply, tokenAccount, tokenOps>>

mint(pred, account_id, amount) ==
    /\ IF pred = tokenAccount
       THEN /\ tokenOps < MaxTokenOps
            /\ balances' = Put(balances, account_id, Balance(account_id) + amount)
            /\ totalSupply' = totalSupply + amount
            /\ tokenOps' = tokenOps + 1
            /\ last' = Call("mint", TRUE, 0)
       ELSE /\ UNCHANGED <<balances, totalSupply, tokenOps>>
            /\ last' = Call("mint", FALSE, 0)
    /\ UNCHANGED <<tokenAccount, inflight>>
    /\ UNCHANGED contractVars

----------------------------------------------------------------------------
(* The weather automation: WeatherAutomation.processWeatherAndPolicies runs  *)
(* in its own operating-system process, one per invocation of the command;   *)
(* it starts scripts/storeWeather.ts as a child process and reads what the   *)
(* child prints.  Each action below is one step between two awaits.          *)

Cycles == 1..MaxCycles                    \* the processes running a cycle
AutoStations == {"WXM_STATION_001"}
AutoAccounts == {INIT_ORACLE, "farmer"}   \* NEAR_ACCOUNT_ID of the process
AutoRainfalls == {10}
NoStation == "undefined"

NoScript == [ok |-> FALSE, cid |-> NoCid]
NoData == [timestamp |-> 0, rainfall_mm |-> 0, filecoinCid |-> NoCid]
NoCycle == [pc |-> "idle", stationId |-> NoStation, script |-> NoScript,
            weatherData |-> NoData]

\* storeWeather.ts, storeWeatherData: fetched is FALSE when fetchWeatherXMData
\* returned null, cid is NoCid when storeOnFilecoin threw, verified is what
\* verifyRetrieval returned.  A failed verification is logged as a warning.
storeWeatherData(fetched, cid, verified) ==
    IF ~fetched THEN NoScript
    ELSE IF cid = NoCid THEN NoScript
    ELSE [ok |-> TRUE, cid |-> cid]

\* The parent looks for a line with 'Weather data:' and a line with
\* 'Filecoin CID:' in what the child printed
parsedAlways(dataLine, cidLine) == TRUE
parsed(dataLine, cidLine) == dataLine /\ cidLine

\* processWeatherAndPolicies is entered
processWeatherAndPolicies(c, stationId) ==
    /\ cycles[c].pc \in {"idle", "failed"}
    /\ cycles' = [cycles EXCEPT ![c] = [NoCycle EXCEPT !.pc = "store",
                                                       !.stationId = stationId]]
    /\ UNCHANGED <<contractVars, tokenVars, blockTimestamp, insurance, last>>

\* The child process: main of storeWeather.ts exits with status 1 when
\* storeWeatherData threw, and prints the CID otherwise
storeWeather(c, fetched, cid, verified) ==
    /\ cycles[c].pc = "store"
    /\ cycles' = [cycles EXCEPT ![c].pc = "parse",
                                ![c].script = storeWeatherData(fetched, cid, verified)]
    /\ UNCHANGED <<contractVars, tokenVars, blockTimestamp, insurance, last>>

\* WeatherAutomation.storeWeatherData after the child has ended: execAsync
\* rejects on a non-zero exit status; otherwise the output is searched for
\* the two lines.  Which lines the output holds is an input of this step.
WeatherAutomation_storeWeatherData(c, timestamp, rainfall_mm, dataLine, cidLine) ==
    /\ cycles[c].pc = "parse"
    /\ cycles' = IF cycles[c].script.ok /\ parsed(dataLine, cidLine)
                 THEN [cycles EXCEPT ![c].pc = "submit",
                                     ![c].weatherData =
                                         [timestamp |-> IF dataLine THEN timestamp ELSE 0,
                                          rainfall_mm |-> IF dataLine THEN rainfall_mm ELSE 0,
                                          filecoinCid |-> IF cidLine THEN cycles[c].script.cid
                                                          ELSE NoCid]]
                 ELSE [cycles EXCEPT ![c].pc = "failed"]
    /\ UNCHANGED <<contractVars, tokenVars, blockTimestamp, insurance, last>>

\* submitWeatherToContract: the arguments are sent as station_id, timestamp,
\* rainfall_mm and filecoin_cid; receive_weather reads stationId, timestamp
\* and filecoinCid, so it finds the timestamp only.
submitWeatherToContract(c, accountId) ==
    /\ cycles[c].pc = "submit"
    /\ receive_weather(accountId, NoStation, cycles[c].weatherData.timestamp, NoCid)
    /\ cycles' = [cycles EXCEPT ![c].pc = IF isAuthorizedOracle(accountId)
                                          THEN "check" ELSE "failed"]
    /\ UNCHANGED <<blockTimestamp, insurance>>

\* checkPolicyPayouts: the view get_policies iterates this.policies with
\* for...of; a LookupMap has no iterator, the view fails and the error is
\* thrown on, so triggerPolicyPayout is not reached.
checkPolicyPayouts(c) ==
    /\ cycles[c].pc = "check"
    /\ cycles' = [cycles EXCEPT ![c].pc = "failed"]
    /\ UNCHANGED <<contractVars, tokenVars, blockTimestamp, insurance, last>>

----------------------------------------------------------------------------
(* The Solidity contract AgriGuardInsurance.  Amounts are in token units,   *)
(* precipitation in mm * 100, temperature in Celsius * 100.  A call whose   *)
(* require fails reverts and leaves the storage as it was.  Arithmetic is   *)
(* checked (Solidity 0.8); the amounts used stay far below 2^256.           *)

MaxEvmPolicies == 1
MaxFundings == 2
MaxEvmPayouts == 3

WeatherOracle == "weatherxm-oracle"
EvmCallers == {"farmer", "keeper", WeatherOracle}
EvmStations == {"WXM_STATION_001"}
EvmCoverages == {1000}
EvmPremiums == {100}
EvmFundings == {1000}
EvmStarts == {Today, Today + 200}
EvmEnds == {Today + 200, Today + 201}
EvmPrecipitations == {1000, 5000}
EvmTemperatures == {2500, 4000}
EvmPolicyIds == 0..MaxEvmPolicies
EvmTriggerIds == {1, 2}

ParametricTrigger(id, triggerType, threshold, bps) ==
    [id |-> id, triggerType |-> triggerType, threshold |-> threshold,
     payoutPercentage |-> bps, isActivated |-> FALSE,
     activatedTimestamp |-> 0]
Drought == ParametricTrigger(1, "DROUGHT", 3000, 6000)
HeatStress == ParametricTrigger(2, "HEAT_STRESS", 3500, 5000)
EvmTriggers == {<<>>, <<Drought>>, <<Drought, HeatStress>>}

NoWeather == [precipitation |-> 0, temperature |-> 0, isValid |-> FALSE]

\* The storage after the constructor
AgriGuardInsurance ==
    [weatherOracle |-> WeatherOracle, platformFee |-> 1000, insurancePool |-> 0,
     policyCounter |-> 0, totalPremiums |-> 0, totalPayouts |-> 0,
     policies |-> EmptyMap, weatherData |-> [s \in EvmStations |-> NoWeather],
     transfers |-> <<>>, fundings |-> 0]

\* A call of the Solidity contract leaves the NEAR side alone
EvmCall(op, ok, storage) ==
    /\ insurance' = storage
    /\ last' = Call(op, ok, 0)
    /\ UNCHANGED <<contractVars, tokenVars, cycles, blockTimestamp>>

validPolicy(policyId) == policyId > 0 /\ policyId <= insurance.policyCounter

Insurance_createPolicy(sender, weatherStationId, coverageAmount, premiumAmount, startDate, endDate, triggers) ==
    /\ insurance.policyCounter < MaxEvmPolicies
    /\ LET policyId == insurance.policyCounter + 1
           policy == [farmer |-> sender, weatherStationId |-> weatherStationId,
                      coverageAmount |-> coverageAmount, premiumAmount |-> premiumAmount,
                      startDate |-> startDate, endDate |-> endDate, status |-> "ACTIVE",
                      triggers |-> triggers, totalPayouts |-> 0]
       IN IF /\ startDate < endDate
             /\ startDate >= blockTimestamp
             /\ coverageAmount > 0
             /\ premiumAmount > 0
             /\ Len(triggers) > 0
          THEN EvmCall("Insurance.createPolicy", TRUE,
                       [insurance EXCEPT !.policyCounter = policyId,
                                         !.policies = Put(@, policyId, policy)])
          ELSE EvmCall("Insurance.createPolicy", FALSE, insurance)

\* payPremium: the token's safeTransferFrom succeeds (paid) or reverts
payPremium(sender, policyId, paid) ==
    /\ insurance.fundings < MaxFundings
    /\ IF /\ validPolicy(policyId)
          /\ insurance.policies[policyId].farmer = sender
          /\ insurance.policies[policyId].status = "ACTIVE"
          /\ blockTimestamp < insurance.policies[policyId].startDate
          /\ paid
       THEN LET premiumAmount == insurance.policies[policyId].premiumAmount
                fee == (premiumAmount * insurance.platformFee) \div 10000
                poolAmount == premiumAmount - fee
            IN EvmCall("Insurance.payPremium", TRUE,
                       [insurance EXCEPT !.insurancePool = @ + poolAmount,
                                         !.totalPremiums = @ + premiumAmount,
                                         !.fundings = @ + 1])
       ELSE EvmCall("Insurance.payPremium", FALSE, insurance)

fundInsurancePool(sender, amount, paid) ==
    /\ insurance.fundings < MaxFundings
    /\ IF amount > 0 /\ paid
       THEN EvmCall("Insurance.fundInsurancePool", TRUE,
                    [insurance EXCEPT !.insurancePool = @ + amount, !.fundings = @ + 1])
       ELSE EvmCall("Insurance.fundInsurancePool", FALSE, insurance)

shouldTrigger(trigger, weather) ==
    CASE trigger.triggerType = "DROUGHT" -> weather.precipitation < trigger.threshold
      [] trigger.triggerType = "EXCESS_RAIN" -> weather.precipitation > trigger.threshold
      [] trigger.triggerType = "HEAT_STRESS" -> weather.temperature > trigger.threshold
      [] trigger.triggerType = "FROST" -> weather.temperature < trigger.threshold
      [] OTHER -> FALSE

\* _checkPolicyTriggers: the policy after its triggers were compared with
\* the station's latest observation
checkPolicyTriggers(policy, weatherData) ==
    LET weather == weatherData[policy.weatherStationId] IN
    IF ~weather.isValid THEN policy
    ELSE [policy EXCEPT !.triggers =
             [i \in DOMAIN policy.triggers |->
                 IF policy.triggers[i].isActivated THEN policy.triggers[i]
                 ELSE IF shouldTrigger(policy.triggers[i], weather)
                 THEN [policy.triggers[i] EXCEPT !.isActivated = TRUE,
                                                 !.activatedTimestamp = blockTimestamp]
                 ELSE policy.triggers[i]]]

inWindow(policy) == blockTimestamp >= policy.startDate /\ blockTimestamp <= policy.endDate

\* updateWeatherData with _checkTriggersForStation
updateWeatherData(sender, stationId, temperature, precipitation) ==
    IF sender = insurance.weatherOracle
    THEN LET weatherData == [insurance.weatherData EXCEPT ![stationId] =
                                [precipitation |-> precipitation,
                                 temperature |-> temperature, isValid |-> TRUE]]
             checked(policy) ==
                 IF /\ policy.status = "ACTIVE"
                    /\ policy.weatherStationId = stationId
                    /\ inWindow(policy)
                 THEN checkPolicyTriggers(policy, weatherData)
                 ELSE policy
         IN EvmCall("Insurance.updateWeatherData", TRUE,
                    [insurance EXCEPT !.weatherData = weatherData,
                                      !.policies = [i \in DOMAIN @ |-> checked(@[i])]])
    ELSE EvmCall("Insurance.updateWeatherData", FALSE, insurance)

checkTriggers(sender, policyId) ==
    IF /\ validPolicy(policyId)
       /\ insurance.policies[policyId].status = "ACTIVE"
       /\ inWindow(insurance.policies[policyId])
    THEN EvmCall("Insurance.checkTriggers", TRUE,
                 [insurance EXCEPT !.policies[policyId] =
                                       checkPolicyTriggers(@, insurance.weatherData)])
    ELSE EvmCall("Insurance.checkTriggers", FALSE, insurance)

\* The first trigger with the given id that is activated, 0 when there is none
triggerFound(policy, triggerId) ==
    LET found == {i \in DOMAIN policy.triggers :
                     policy.triggers[i].id = triggerId /\ policy.triggers[i].isActivated}
    IN IF found = {} THEN 0 ELSE CHOOSE i \in found : \A j \in found : i <= j

Insurance_executePayout(sender, policyId, triggerId) ==
    /\ Len(insurance.transfers) < MaxEvmPayouts
    /\ IF validPolicy(policyId) /\ insurance.policies[policyId].status = "ACTIVE"
       THEN LET policy == insurance.policies[policyId]
                i == triggerFound(policy, triggerId)
                payoutAmount == IF i = 0 THEN 0
                                ELSE (policy.coverageAmount * policy.triggers[i].payoutPercentage)
                                     \div 10000
            IN IF i # 0 /\ payoutAmount > 0 /\ insurance.insurancePool >= payoutAmount
               THEN EvmCall("Insurance.executePayout", TRUE,
                            [insurance EXCEPT
                                !.insurancePool = @ - payoutAmount,
                                !.policies[policyId].totalPayouts = @ + payoutAmount,
                                !.totalPayouts = @ + payoutAmount,
                                !.transfers = Append(@, [to |-> policy.farmer,
                                                         amount |-> payoutAmount,
                                                         policyId |-> policyId,
                                                         triggerId |-> triggerId])])
               ELSE EvmCall("Insurance.executePayout", FALSE, insurance)
       ELSE EvmCall("Insurance.executePayout", FALSE, insurance)

----------------------------------------------------------------------------
(* The contract after construction and init({owner}); the token after new() *)

Init ==
    /\ policies = EmptyMap
    /\ claims = EmptyMap
    /\ totalPolicies = 0
    /\ totalClaims = 0
    /\ totalPremiumsCollected = 0
    /\ totalClaimsPaid = 0
    /\ owner \in {Contract, "admin"}
    /\ payouts = <<>>
    /\ tokenAccount = USDC_CONTRACT
    /\ totalSupply = 0
    /\ balances = EmptyMap
    /\ inflight = <<>>
    /\ tokenOps = 0
    /\ settlements = 0
    /\ authorizedOracles = [o \in {INIT_ORACLE} |-> TRUE]
    /\ weatherDataStorage = EmptyMap
    /\ cycles = [c \in Cycles |-> NoCycle]
    /\ blockTimestamp = Today
    /\ insurance = AgriGuardInsurance
    /\ last = Call("init", TRUE, 0)

\* The token is deployed by its owner, at USDC_CONTRACT or at the account the
\* sandbox tests use, and new() gives the owner the total supply
InitToken ==
    /\ policies = EmptyMap
    /\ claims = EmptyMap
    /\ totalPolicies = 0
    /\ totalClaims = 0
    /\ totalPremiumsCollected = 0
    /\ totalClaimsPaid = 0
    /\ owner = Contract
    /\ payouts = <<>>
    /\ tokenAccount \in {USDC_CONTRACT, MockAccount}
    /\ totalSupply \in Supplies
    /\ balances = [a \in {tokenAccount} |-> totalSupply]
    /\ inflight = <<>>
    /\ tokenOps = 0
    /\ settlements = 0
    /\ authorizedOracles = [o \in {INIT_ORACLE} |-> TRUE]
    /\ weatherDataStorage = EmptyMap
    /\ cycles = [c \in Cycles |-> NoCycle]
    /\ blockTimestamp = Today
    /\ insurance = AgriGuardInsurance
    /\ last = Call("new", TRUE, 0)

\* Policy creation, at most n policies
NextCreate(n) ==
    /\ totalPolicies < n
    /\ \/ \E pred \in Users, c \in Crops, lat \in Lats, lng \in Lngs, cov \in Coverages,
             s \in StartDates, e \in EndDates, wp \in Params :
             createPolicy(pred, c, lat, lng, Decimal(cov), s, e, wp)
       \/ \E pred \in Callers, f \in Users, c \in Crops, cov \in Coverages,
             p \in Premiums, s \in StartDates, e \in EndDates :
             create_policy(pred, f, c, cov, p, s, e)
    /\ UNCHANGED <<cycles, blockTimestamp, insurance>>

\* Settlement callbacks from any caller, with any payer, amount and message
NextTransfer ==
    /\ \E pred \in TransferCallers, s \in Users, a \in Amounts, m \in Msgs :
          ft_on_transfer(pred, s, a, m)
    /\ UNCHANGED <<cycles, blockTimestamp, insurance>>

\* The token issuer settles a premium
NextActivate ==
    /\ \E s \in Users, a \in Premiums, k \in PolicyIds :
          ft_on_transfer(USDC_CONTRACT, s, a, Msg(k))
    /\ UNCHANGED <<cycles, blockTimestamp, insurance>>

\* Claim filing, evaluation and payout
NextPayout ==
    /\ \/ \E pred \in PayoutCallers, k \in PolicyIds, t \in Temps, r \in Rains :
             fileClaim(pred, k, t, r)
       \/ \E pred \in PayoutCallers, to \in Recipients, a \in PayoutAmounts :
             triggerPayout(pred, to, a)
       \/ \E pred \in PayoutCallers, to \in Recipients, a \in PayoutAmounts,
             c \in ClaimIds :
             adminTriggerPayout(pred, to, a, c)
    /\ UNCHANGED <<cycles, blockTimestamp, insurance>>

\* The automation's entry points
NextStatus ==
    /\ \/ \E pred \in Callers, k \in PolicyIds, r \in ActualRainfalls :
             process_policy_claims(pred, k, r)
       \/ \E pred \in Callers, k \in PolicyIds, st \in Statuses :
             update_policy_status(pred, k, st)
    /\ UNCHANGED <<cycles, blockTimestamp, insurance>>

Next == NextCreate(MaxPolicies) \/ NextTransfer \/ NextPayout \/ NextStatus

\* The token's calls and the promises it creates
NextToken ==
    /\ \/ \E pred \in TokenUsers, a \in TokenUsers : storage_deposit(pred, a)
       \/ \E pred \in TokenUsers \cup {tokenAccount}, to \in TokenUsers,
             a \in TokenAmounts, d \in Deposits :
             ft_transfer(pred, to, a, d)
       \/ \E pred \in TokenUsers, a \in TokenAmounts, m \in TokenMsgs, d \in Deposits :
             ft_transfer_call(pred, Contract, a, m, d)
       \/ deliver
       \/ \E pred \in {tokenAccount, "farmer"}, to \in TokenUsers, a \in TokenAmounts :
             mint(pred, to, a)
    /\ UNCHANGED <<cycles, blockTimestamp, insurance>>

\* Policies whose coverage is not a multiple of 100, with premium 5500000
NextCreateEval ==
    /\ totalPolicies < MaxPolicies
    /\ \E pred \in EvalUsers, c \in Crops, lat \in Lats, lng \in Lngs, cov \in EvalCoverages,
          s \in StartDates, e \in EndDates, wp \in Params :
          createPolicy(pred, c, lat, lng, Decimal(cov), s, e, wp)
    /\ UNCHANGED <<cycles, blockTimestamp, insurance>>

\* Claims filed by the policies' owner, with observations below, on and
\* above the thresholds
NextFile ==
    /\ \E pred \in EvalUsers, k \in PolicyIds, t \in EvalTemps, r \in EvalRains :
          fileClaim(pred, k, t, r)
    /\ UNCHANGED <<cycles, blockTimestamp, insurance>>

\* The oracle registry and the weather records
NextOracle ==
    /\ \/ \E pred \in OracleCallers, o \in OracleIds : addOracle(pred, o)
       \/ \E pred \in OracleCallers, o \in OracleIds : removeOracle(pred, o)
       \/ \E pred \in OracleCallers, now \in Timestamps, st \in Stations,
             t \in SubmitTemps, r \in SubmitRains, cid \in Cids \cup {NoCid} :
             submitWeatherData(pred, now, st, t, r, cid)
       \/ \E pred \in OracleCallers, st \in Stations, ts \in Timestamps, cid \in Cids :
             receive_weather(pred, st, ts, cid)
    /\ UNCHANGED <<cycles, blockTimestamp, insurance>>

\* createPolicy with accepted and rejected arguments, and create_policy
NextCreateAny ==
    /\ totalPolicies < MaxCreated
    /\ \/ \E pred \in CreateUsers, c \in CreateCrops, lat \in CreateLats,
             lng \in CreateLngs, cov \in CreateCoverages, s \in CreateStarts,
             e \in CreateEnds, wp \in CreateParams :
             createPolicy(pred, c, lat, lng, cov, s, e, wp)
       \/ \E pred \in Callers, f \in Recipients, c \in Crops, cov \in Coverages,
             p \in Premiums, s \in StartDates, e \in EndDates :
             create_policy(pred, f, c, cov, p, s, e)
    /\ UNCHANGED <<cycles, blockTimestamp, insurance>>

\* The steps of the automation's processes, interleaved
NextAuto ==
    \/ \E c \in Cycles, st \in AutoStations : processWeatherAndPolicies(c, st)
    \/ \E c \in Cycles, fetched \in BOOLEAN, cid \in Cids \cup {NoCid},
          verified \in BOOLEAN :
          storeWeather(c, fetched, cid, verified)
    \/ \E c \in Cycles, ts \in Timestamps, r \in AutoRainfalls,
          dataLine \in BOOLEAN, cidLine \in BOOLEAN :
          WeatherAutomation_storeWeatherData(c, ts, r, dataLine, cidLine)
    \/ \E c \in Cycles, a \in AutoAccounts : submitWeatherToContract(c, a)
    \/ \E c \in Cycles : checkPolicyPayouts(c)

\* The calls that read or write policies, claims and payouts, in any order
Spec == Init /\ [][Next]_vars

\* The calls of the oracle registry and of weather data, in any order; they
\* read and write only authorizedOracles and weatherDataStorage
SpecOracle == Init /\ [][NextOracle]_vars

\* The weather automation and the contract it submits to
SpecAuto == Init /\ [][NextAuto]_vars

\* Policy creation through both entry points
SpecCreate == Init /\ [][NextCreateAny]_vars

\* Policy creation and premium settlement only
SpecSettle == Init /\ [][NextCreate(MaxPolicies) \/ NextTransfer]_vars

\* Policy creation, settlement of the premium, claims and payouts
SpecClaims == Init /\ [][NextCreate(MaxPolicies) \/ NextActivate \/ NextPayout]_vars

\* Creation, settlement and the automatic evaluation of filed claims
SpecEval == Init /\ [][NextCreateEval \/ NextActivate \/ NextFile]_vars

\* The token and the contract: premiums paid through ft_transfer_call
SpecToken == InitToken /\ [][NextCreate(MaxPolicies) \/ NextToken]_vars
----------------------------------------------------------------------------
(* Premium settlement *)

\* The contract's state apart from the record of the last call
Ledger == <<policies, claims, totalPolicies, totalClaims, totalPremiumsCollected,
            totalClaimsPaid, owner, payouts>>

\* The token issuer delivers ft_on_transfer(s, a, {policyId: k})
Settles(s, a, k) == ft_on_transfer(USDC_CONTRACT, s, a, Msg(k))

\* C1: replaying a settlement against a policy that is already Active, with
\* the payer and the amount that activated it, returns the whole amount and
\* leaves the policy and totalPremiumsCollected as they were.
C1_ReplayRefundsAll ==
    [][\A s \in Users, a \in Amounts, k \in PolicyIds :
         ( /\ Has(policies, k)
           /\ policies[k].status = "active"
           /\ policies[k].farmer = s
           /\ policies[k].premiumPaid = a
           /\ Settles(s, a, k) )
         => /\ last'.ret = a
            /\ policies'[k] = policies[k]
            /\ totalPremiumsCollected' = totalPremiumsCollected]_vars

\* C2: over ft_on_transfer calls no policy's premiumPaid decreases, and a
\* policy that has left Pending is not made Active by a later call.
C2_PremiumMonotonic ==
    [][(\E p \in TransferCallers, s \in Users, a \in Amounts, m \in Msgs :
            ft_on_transfer(p, s, a, m))
       => \A k \in DOMAIN policies :
            /\ policies'[k].premiumPaid >= policies[k].premiumPaid
            /\ (policies[k].status # "active" /\ policies'[k].status = "active")
                   => policies[k].status = "pending"]_vars

\* C3: a policy's status only moves Pending -> Active -> Claimed or
\* Active -> Expired.
Forward(from, to) ==
    \/ from = to
    \/ from = "pending" /\ to = "active"
    \/ from = "active" /\ to \in {"claimed", "expired"}

C3_StatusForward ==
    [][\A k \in DOMAIN policies :
         Has(policies', k) => Forward(policies[k].status, policies'[k].status)]_vars

\* C4: a policy becomes Active only by an ft_on_transfer from the token
\* issuer that carries at least the premium from the policy's owner.
C4_OnlySettlementActivates ==
    [][\A k \in DOMAIN policies :
         (policies[k].status # "active" /\ Has(policies', k)
             /\ policies'[k].status = "active")
         => \E a \in Amounts :
              /\ a >= policies[k].premium
              /\ Settles(policies[k].farmer, a, k)]_vars

\* C5: a sufficient payment by the owner of a Pending policy is recorded as
\* premiumPaid, makes the policy active, is added to totalPremiumsCollected,
\* and the excess over the premium is returned.
C5_SufficientPremiumActivates ==
    [][\A s \in Users, a \in Amounts, k \in PolicyIds :
         ( /\ Has(policies, k)
           /\ policies[k].status = "pending"
           /\ policies[k].farmer = s
           /\ a >= policies[k].premium
           /\ Settles(s, a, k) )
         => /\ last'.ok
            /\ last'.ret = a - policies[k].premium
            /\ policies'[k] = [policies[k] EXCEPT !.premiumPaid = a,
                                                  !.status = "active",
                                                  !.isActive = TRUE]
            /\ \A j \in DOMAIN policies \ {k} : policies'[j] = policies[j]
            /\ totalPremiumsCollected' = totalPremiumsCollected + a]_vars

C5_Witness ==
    /\ last.op = "ft_on_transfer" /\ last.ok /\ last.ret > 0
    /\ settlements = 1
    /\ \E k \in DOMAIN policies :
         /\ policies[k].status = "active" /\ policies[k].isActive
         /\ policies[k].premiumPaid = policies[k].premium + last.ret
         /\ totalPremiumsCollected = policies[k].premiumPaid

C7_AmbiguousSettlementRefunded ==
    [][\A a \in Amounts :
         \/ last'.ok /\ last'.ret = a /\ UNCHANGED Ledger
         \/ \A s \in Users, m \in Msgs :
              ( \/ ~m.json
                \/ ~Has(policies, m.policyId)
                \/ policies[m.policyId].farmer # s )
              => ~ft_on_transfer(USDC_CONTRACT, s, a, m)]_vars

C7_Witness ==
    /\ last.op = "ft_on_transfer" /\ last.ok
    /\ settlements = 0
    /\ policies # EmptyMap
    /\ \A k \in DOMAIN policies :
         policies[k].status = "pending" /\ last.ret > policies[k].premium

\* C8: ft_on_transfer called by an account other than the token contract
\* fails and changes nothing, whatever payer, amount and message it carries.
C8_OnlyTokenContractSettles ==
    [][\/ ~last'.ok /\ UNCHANGED Ledger
       \/ \A p \in TransferCallers \ {USDC_CONTRACT}, s \in Users, a \in Amounts,
             m \in Msgs :
            ~ft_on_transfer(p, s, a, m)]_vars

C8_Witness ==
    /\ last.op = "ft_on_transfer" /\ ~last.ok
    /\ \E k \in DOMAIN policies :
         policies[k].farmer = "farmer" /\ policies[k].status = "pending"

----------------------------------------------------------------------------
(* Refund of a rejected premium *)

\* C9: when the settlement of an ft_transfer_call is rejected (the handler
\* returns the whole amount), the token gives the amount back: the payer's
\* balance rises by it and the contract's custody balance falls by it, so
\* both are what they were before the transfer.
C9_RejectedPremiumReturned ==
    [][( /\ inflight # <<>>
         /\ inflight' = Tail(inflight)
         /\ last'.op = "ft_on_transfer" /\ last'.ok
         /\ last'.ret = Head(inflight).amount
         /\ Head(inflight).sender_id # Head(inflight).receiver_id )
       => LET p == Head(inflight)
              After(a) == IF Has(balances', a) THEN balances'[a] ELSE 0
          IN /\ After(p.sender_id) = Balance(p.sender_id) + p.amount
             /\ After(p.receiver_id) = Balance(p.receiver_id) - p.amount]_vars

----------------------------------------------------------------------------
(* Payouts *)

\* The payout transfers issued for a claim
NumPayouts(c) == Cardinality({i \in DOMAIN payouts : payouts[i].claimId = c})

isPaid(c) == Has(claims, c) /\ claims[c].status = "paid"

\* C10: a claim becomes Paid at most once and at most one payout transfer
\* is issued for it: a Paid claim stays Paid with no further transfer, and
\* a claim has one transfer if it is Paid and none otherwise.
C10_ClaimPaidAtMostOnce ==
    [][\A c \in ClaimIds :
         /\ isPaid(c) => (isPaid(c)' /\ NumPayouts(c)' = NumPayouts(c))
         /\ NumPayouts(c)' = IF isPaid(c)' THEN 1 ELSE 0]_vars

C10_Witness ==
    /\ last.op = "adminTriggerPayout" /\ ~last.ok
    /\ owner = Contract
    /\ \E c \in DOMAIN claims :
         /\ claims[c].status = "paid" /\ claims[c].farmer = owner
         /\ NumPayouts(c) = 1

----------------------------------------------------------------------------
(* Filing and evaluation of claims *)

\* C11: when the owner of an Active policy files a claim whose observation
\* breaches a threshold, the call succeeds, the claim is paid with a
\* positive claimAmount, the policy is claimed and its claimsPaid has grown
\* by the claimAmount.
C11_BreachingClaimPaid ==
    [][\A s \in Users, k \in PolicyIds, t \in Temps, r \in Rains :
         ( /\ Has(policies, k)
           /\ policies[k].status = "active"
           /\ policies[k].farmer = s
           /\ shouldPay(policies[k].weatherParameters, t, r)
           /\ fileClaim(s, k, t, r) )
         => /\ last'.ok
            /\ Has(claims', last'.ret)
            /\ claims'[last'.ret].status = "paid"
            /\ claims'[last'.ret].claimAmount > 0
            /\ policies'[k].status = "claimed"
            /\ policies'[k].claimsPaid
                  = policies[k].claimsPaid + claims'[last'.ret].claimAmount]_vars

\* C12: fileClaim succeeds only for the policy's owner on a policy whose
\* status is active; otherwise it fails, creates no claim and leaves
\* totalClaims unchanged.
C12_ClaimOnlyOnActivePolicy ==
    [][\A s \in PayoutCallers, k \in PolicyIds, t \in Temps, r \in Rains :
         ( /\ fileClaim(s, k, t, r)
           /\ ~( /\ Has(policies, k)
                 /\ policies[k].farmer = s
                 /\ policies[k].status = "active" ) )
         => /\ ~last'.ok
            /\ claims' = claims
            /\ totalClaims' = totalClaims]_vars

\* The breached dimensions of an observation
tempBreached(wp, t) == t < wp.minTemp \/ t > wp.maxTemp
rainBreached(wp, r) == r < wp.minRainfall \/ r > wp.maxRainfall

\* C13: the claim paid by automatic evaluation carries
\* floor(coverageAmount * pct / 100), where pct is 50 when only temperature
\* is breached and 60 when rainfall is breached, alone or with temperature.
C13_PayoutIsMaxOfBreaches ==
    [][\A s \in EvalUsers, k \in PolicyIds, t \in EvalTemps, r \in EvalRains :
         ( /\ fileClaim(s, k, t, r)
           /\ last'.ok
           /\ tempBreached(policies[k].weatherParameters, t)
                 \/ rainBreached(policies[k].weatherParameters, r) )
         => LET wp == policies[k].weatherParameters
                pct == IF rainBreached(wp, r) THEN 60 ELSE 50
                cov == policies[k].coverageAmount
                due == claims'[last'.ret].claimAmount
                \* cov * pct - 100 * due = 100 * whole + part
                whole == (cov \div 100) * pct - due
                part == (cov % 100) * pct
            IN /\ whole <= 0 /\ whole > 0 - 100
               /\ 0 <= 100 * whole + part /\ 100 * whole + part < 100
               /\ payouts' = Append(payouts, Payout(s, due, last'.ret))]_vars

C13_Witness ==
    /\ last.op = "fileClaim" /\ last.ok
    /\ Has(claims, last.ret)
    /\ LET c == claims[last.ret] IN
       /\ c.temperature = 45 /\ c.rainfall = 50
       /\ policies[c.policyId].coverageAmount = 100000001
       /\ c.claimAmount = 60000000
       /\ c.status = "paid"

\* C14: a claim whose observation lies inside both threshold ranges, the
\* thresholds included, stays pending with claimAmount 0; no transfer is
\* issued and the policies and totalClaimsPaid are unchanged.
C14_NoBreachNoPayout ==
    [][\A s \in EvalUsers, k \in PolicyIds, t \in EvalTemps, r \in EvalRains :
         ( /\ fileClaim(s, k, t, r)
           /\ last'.ok
           /\ policies[k].weatherParameters.minTemp <= t
           /\ t <= policies[k].weatherParameters.maxTemp
           /\ policies[k].weatherParameters.minRainfall <= r
           /\ r <= policies[k].weatherParameters.maxRainfall )
         => /\ claims'[last'.ret].status = "pending"
            /\ claims'[last'.ret].claimAmount = 0
            /\ payouts' = payouts
            /\ policies' = policies
            /\ totalClaimsPaid' = totalClaimsPaid]_vars

C14_Witness ==
    /\ last.op = "fileClaim" /\ last.ok
    /\ Has(claims, last.ret)
    /\ LET c == claims[last.ret] IN
       /\ c.temperature = 30 /\ c.rainfall = 300
       /\ c.farmer = Contract
       /\ c.status = "pending" /\ c.claimAmount = 0
       /\ policies[c.policyId].status = "active"
       /\ payouts = <<>>

----------------------------------------------------------------------------
(* The administrative payout *)

\* C15: adminTriggerPayout fails unless the caller is the contract owner
\* and the named claim exists with status approved; a failed call changes
\* no claim, no policy, not totalClaimsPaid, and issues no transfer.
C15_AdminPayoutNeedsApprovedClaim ==
    [][last'.op = "adminTriggerPayout" =>
         \A p \in PayoutCallers, to \in Recipients, a \in PayoutAmounts, c \in ClaimIds :
           ( /\ adminTriggerPayout(p, to, a, c)
             /\ ~( /\ p = owner
                   /\ Has(claims, c)
                   /\ claims[c].status = "approved" ) )
           => /\ ~last'.ok
              /\ claims' = claims
              /\ policies' = policies
              /\ totalClaimsPaid' = totalClaimsPaid
              /\ payouts' = payouts]_vars

C15_Witness ==
    /\ last.op = "adminTriggerPayout" /\ ~last.ok
    /\ \E c \in DOMAIN claims : claims[c].status \in {"pending", "paid"}
    /\ \E c \in ClaimIds : ~Has(claims, c)

\* A claim whose observation breached a threshold of its policy when it was
\* filed: automatic evaluation gave it its claimAmount, which is 0 otherwise
filedWithBreach(c) == Has(claims, c) /\ claims[c].claimAmount > 0

----------------------------------------------------------------------------
(* Who can move funds and change policies *)

\* Any call but adminTriggerPayout, made by the account p
CallBy(p) ==
    \/ \E c \in Crops, lat \in Lats, lng \in Lngs, cov \in Coverages, s \in StartDates,
          e \in EndDates, wp \in Params :
          createPolicy(p, c, lat, lng, Decimal(cov), s, e, wp)
    \/ \E f \in Users, c \in Crops, cov \in Coverages, pr \in Premiums,
          s \in StartDates, e \in EndDates : create_policy(p, f, c, cov, pr, s, e)
    \/ \E s \in Users, a \in Amounts, m \in Msgs : ft_on_transfer(p, s, a, m)
    \/ \E k \in PolicyIds, t \in Temps, r \in Rains : fileClaim(p, k, t, r)
    \/ \E to \in Recipients, a \in PayoutAmounts : triggerPayout(p, to, a)
    \/ \E k \in PolicyIds, r \in ActualRainfalls : process_policy_claims(p, k, r)
    \/ \E k \in PolicyIds, st \in Statuses : update_policy_status(p, k, st)

AdminCallBy(p) ==
    \E to \in Recipients, a \in PayoutAmounts, c \in ClaimIds :
        adminTriggerPayout(p, to, a, c)

C18_PoliciesChangeByAuthorizedCallers ==
    [][\/ policies' = policies
       \/ \A p \in Callers :
            (CallBy(p) \/ AdminCallBy(p))
            => /\ \A k \in DOMAIN policies' \ DOMAIN policies :
                    policies'[k].farmer = p
               /\ p # owner
                    => \A k \in DOMAIN policies :
                         policies[k].farmer # p => policies'[k] = policies[k]]_vars

----------------------------------------------------------------------------
(* Oracles *)

\* The registry holds the flag true for the identity
flagged(id) == id \in DOMAIN authorizedOracles /\ authorizedOracles[id] = TRUE

\* A call of submitWeatherData or receive_weather by the account p
OracleCallBy(p) ==
    \/ \E now \in Timestamps, st \in Stations, t \in SubmitTemps, r \in SubmitRains,
          cid \in Cids \cup {NoCid} : submitWeatherData(p, now, st, t, r, cid)
    \/ \E st \in Stations, ts \in Timestamps, cid \in Cids :
          receive_weather(p, st, ts, cid)

\* C19: submitWeatherData and receive_weather called by an identity that
\* is not an authorized oracle fail, and no weather record is created or
\* changed.
C19_UnauthorizedOracleRejected ==
    [][\/ ~last'.ok /\ weatherDataStorage' = weatherDataStorage
       \/ \A p \in OracleCallers : ~flagged(p) => ~OracleCallBy(p)]_vars

C19_Witness ==
    /\ last.op \in {"submitWeatherData", "receive_weather"} /\ ~last.ok
    /\ weatherDataStorage # EmptyMap
    /\ \E o \in OracleIds : ~flagged(o)

\* C20: addOracle and removeOracle change the registry only when the
\* contract owner calls them: addOracle sets the identity's flag,
\* removeOracle clears it, any other caller fails and nothing else changes
\* the registry; and an identity's submission is accepted exactly when its
\* flag is set, that is when the last successful registry call for it was
\* addOracle or it is the oracle init installed and was never removed.
C20_RegistryFollowsOwner ==
    [][/\ \A p \in OracleCallers, o \in OracleIds :
            /\ addOracle(p, o)
                 => IF p = owner
                    THEN /\ last'.ok /\ flagged(o)'
                         /\ \A x \in OracleIds \ {o} : flagged(x)' = flagged(x)
                    ELSE ~last'.ok /\ authorizedOracles' = authorizedOracles
            /\ removeOracle(p, o)
                 => IF p = owner
                    THEN /\ last'.ok /\ ~flagged(o)'
                         /\ \A x \in OracleIds \ {o} : flagged(x)' = flagged(x)
                    ELSE ~last'.ok /\ authorizedOracles' = authorizedOracles
       /\ \A p \in OracleCallers :
            OracleCallBy(p) => /\ last'.ok = flagged(p)
                               /\ authorizedOracles' = authorizedOracles]_vars

C20_Witness ==
    /\ last.op = "submitWeatherData" /\ ~last.ok
    /\ Has(authorizedOracles, INIT_ORACLE) /\ ~authorizedOracles[INIT_ORACLE]
    /\ flagged("oracle")
    /\ weatherDataStorage # EmptyMap

----------------------------------------------------------------------------
(* Policy creation *)

\* A creation call that returned an identifier
created == last'.op \in {"createPolicy", "create_policy"} /\ last'.ok

\* C21: policy records are append-only by identifier: a successful
\* createPolicy or create_policy returns an identifier that no earlier
\* creation returned, and leaves every existing record in place, unchanged.
C21_PolicyRecordsAppendOnly ==
    [][created =>
         /\ ~Has(policies, last'.ret)
         /\ \A k \in DOMAIN policies : Has(policies', k) /\ policies'[k] = policies[k]]_vars

----------------------------------------------------------------------------
(* Weather records *)

\* The records that carry a Filecoin CID
anchored(key) == Has(weatherDataStorage, key) /\ weatherDataStorage[key].filecoinCid # NoCid

\* C22: a stored weather observation is never mutated: once a record is
\* stored under (stationId, timestamp) with a CID, no later submitWeatherData
\* or receive_weather changes the record or replaces its CID.
C22_WeatherRecordImmutable ==
    [][\A key \in DOMAIN weatherDataStorage :
          anchored(key) => /\ Has(weatherDataStorage', key)
                           /\ weatherDataStorage'[key] = weatherDataStorage[key]]_vars

\* C23: createPolicy rejects a coverage amount outside
\* [MIN_PREMIUM_USDC, MAX_COVERAGE_USDC], an unknown crop, coordinates out of
\* range, a threshold minimum that is not below its maximum, a start date
\* that is not in the future and a window outside [30, 365] days, and a
\* rejected call creates no policy and leaves totalPolicies as it was; an
\* accepted call stores a policy owned by the caller, pending, not active,
\* with premiumPaid 0 and claimsPaid 0.
C23_CreatePolicyValidates ==
    [][last'.op = "createPolicy" =>
         IF last'.ok
         THEN LET p == policies'[last'.ret] IN
              /\ p.coverageAmount >= MIN_PREMIUM_USDC
              /\ p.coverageAmount \div MICRO <= MAX_COVERAGE_WHOLE_USDC
              /\ p.cropType \in {"wheat", "corn", "rice", "soybeans", "cotton", "barley",
                                 "oats", "tomatoes", "potatoes", "onions"}
              /\ Abs(p.lat) <= 900000 /\ Abs(p.lng) <= 1800000
              /\ p.weatherParameters.minTemp < p.weatherParameters.maxTemp
              /\ p.weatherParameters.minRainfall < p.weatherParameters.maxRainfall
              /\ p.startDate > blockTimestamp
              /\ p.endDate - p.startDate >= 30 /\ p.endDate - p.startDate <= 365
              /\ \A pred \in CreateUsers :
                    createPolicy(pred, p.cropType, p.lat, p.lng, Decimal(p.coverageAmount),
                                 p.startDate, p.endDate, p.weatherParameters)
                    => p.farmer = pred
              /\ p.status = "pending" /\ ~p.isActive
              /\ p.premiumPaid = 0 /\ p.claimsPaid = 0
              /\ totalPolicies' = totalPolicies + 1
         ELSE policies' = policies /\ totalPolicies' = totalPolicies]_vars

\* C24: the premium of a wheat policy is 5% of its coverage: a policy that
\* createPolicy stored for wheat at latitude 40.7128 with coverage
\* 100,000,000 requires exactly 5,000,000.
C24_WheatPremiumFivePercent ==
    \A k \in DOMAIN policies :
        (/\ policies[k].cropType = "wheat"
         /\ policies[k].lat = 407128
         /\ policies[k].coverageAmount = 100000000)
        => policies[k].premium = 5000000

\* A rice policy j and a wheat policy k that createPolicy priced for the
\* same coverage at the same latitude
sameRisk(j, k) ==
    /\ policies[j].cropType = "rice" /\ policies[k].cropType = "wheat"
    /\ policies[j].coverageAmount = policies[k].coverageAmount
    /\ policies[j].lat = policies[k].lat

\* C25 as stated: for every accepted coverage and location the rice premium
\* is strictly greater than the wheat premium.
C25_RicePremiumAboveWheat ==
    \A j, k \in DOMAIN policies :
        sameRisk(j, k) => policies[j].premium > policies[k].premium

\* C25: for every accepted coverage and location the rice premium is at
\* least the wheat premium, and it is strictly greater whenever the rice
\* premium is above the minimum premium (below it both are raised to
\* MIN_PREMIUM_USDC and are equal).
C25_RicePremiumNotBelowWheat ==
    \A j, k \in DOMAIN policies :
        sameRisk(j, k) =>
            /\ policies[j].premium >= policies[k].premium
            /\ policies[j].premium > MIN_PREMIUM_USDC
               => policies[j].premium > policies[k].premium

\* A wheat and a rice policy for 100 USDC at latitude 40.7128
C25_Witness ==
    /\ Has(policies, 1) /\ Has(policies, 2)
    /\ sameRisk(2, 1)
    /\ policies[1].coverageAmount = 100000000 /\ policies[1].lat = 407128
    /\ policies[2].premium > policies[1].premium

----------------------------------------------------------------------------
(* Contract statistics *)

getContractStats ==
    [totalPolicies |-> totalPolicies, totalClaims |-> totalClaims,
     totalPremiumsCollected |-> totalPremiumsCollected,
     totalClaimsPaid |-> totalClaimsPaid]

\* The sum of premiumPaid over the policy records ids
RECURSIVE premiumsPaid(_)
premiumsPaid(ids) ==
    IF ids = {} THEN 0
    ELSE LET k == CHOOSE x \in ids : TRUE
         IN policies[k].premiumPaid + premiumsPaid(ids \ {k})

\* C26: getContractStats reports totalPolicies equal to the number of policy
\* records and totalPremiumsCollected equal to the sum of premiumPaid over
\* all policies.
C26_StatsMatchRecords ==
    /\ getContractStats.totalPolicies = Cardinality(DOMAIN policies)
    /\ getContractStats.totalPremiumsCollected = premiumsPaid(DOMAIN policies)

----------------------------------------------------------------------------
(* The automation cycle *)

\* The step in which cycle c calls receive_weather, and the step in which it
\* evaluates the policies
Submits(c) == cycles[c].pc = "submit" /\ cycles'[c].pc # "submit"
Evaluates(c) == cycles[c].pc = "check" /\ cycles'[c].pc # "check"

\* The child process of cycle c fetched an observation and anchored it, and
\* the cycle holds the CID it printed
holdsAnchor(c) ==
    /\ cycles[c].script.ok
    /\ cycles[c].script.cid \in Cids
    /\ cycles[c].weatherData.filecoinCid = cycles[c].script.cid

\* C27: in every automation cycle receive_weather is called only after the
\* observation was fetched and a Filecoin CID for it was obtained, and
\* evaluation follows submission; when the fetch or the anchoring fails the
\* cycle ends without a ledger submission and without policy evaluation.
C27_SubmitOnlyAfterAnchor ==
    [][/\ \A c \in Cycles :
            /\ Submits(c) => holdsAnchor(c)
            /\ Evaluates(c) => holdsAnchor(c)
            /\ cycles'[c].pc = "check" => cycles[c].pc \in {"submit", "check"}
            /\ cycles'[c].pc = "submit" => cycles[c].pc \in {"parse", "submit"}
            /\ (cycles[c].pc = "parse" /\ ~cycles[c].script.ok)
               => cycles'[c].pc \in {"parse", "failed"}
       /\ (weatherDataStorage' # weatherDataStorage \/ last' # last)
          => \E c \in Cycles : Submits(c)]_vars

\* One cycle has submitted its anchored observation, and another ended
\* because its child process failed
C27_Witness ==
    \E c1, c2 \in Cycles :
        /\ cycles[c1].pc = "check" /\ cycles[c1].weatherData.filecoinCid \in Cids
        /\ Has(weatherDataStorage, <<NoStation, cycles[c1].weatherData.timestamp>>)
        /\ cycles[c2].pc = "failed" /\ ~cycles[c2].script.ok
        /\ last.op = "receive_weather" /\ last.ok

\* C28: when verifyRetrieval returns false for the stored CID the cycle is
\* aborted: the child process hands no CID on and nothing is submitted.
C28_UnverifiedAnchorAborts ==
    [][\A c \in Cycles, fetched \in BOOLEAN, cid \in Cids \cup {NoCid} :
         storeWeather(c, fetched, cid, FALSE) => ~cycles'[c].script.ok]_vars

\* No process but c has ever started a cycle
runsAlone(c) == \A d \in Cycles \ {c} : cycles[d].pc = "idle"

inProgress(c) == cycles[c].pc \in {"store", "parse", "submit", "check"}

\* C30: cycles for one station are serialized: no two of them are in
\* progress at the same time.
C30_CyclesSerialized ==
    \A c1, c2 \in Cycles :
        (c1 # c2 /\ cycles[c1].stationId = cycles[c2].stationId)
        => ~(inProgress(c1) /\ inProgress(c2))

----------------------------------------------------------------------------
(* Evaluation of the policies of a station by the automation *)

\* Weather parameters that the observed rainfall of AutoRainfalls breaches
\* (below minRainfall) and that it does not breach
StationParams == {[minTemp |-> 5, maxTemp |-> 30, minRainfall |-> 300, maxRainfall |-> 1000],
                  [minTemp |-> 5, maxTemp |-> 30, minRainfall |-> 5, maxRainfall |-> 1000]}
StationPolicyIds == 1..MaxCreated

\* The farmer creates the policies that the automation's station serves
NextStationCreate ==
    /\ totalPolicies < MaxCreated
    /\ \E c \in Crops, lat \in Lats, lng \in Lngs, cov \in Coverages,
          s \in StartDates, e \in EndDates, wp \in StationParams :
          createPolicy("farmer", c, lat, lng, Decimal(cov), s, e, wp)
    /\ UNCHANGED <<cycles, blockTimestamp, insurance>>

\* The token issuer settles the premium of one of them
NextStationActivate ==
    /\ \E a \in Premiums, k \in StationPolicyIds :
          ft_on_transfer(USDC_CONTRACT, "farmer", a, Msg(k))
    /\ UNCHANGED <<cycles, blockTimestamp, insurance>>

\* Policies are created and activated while the automation runs its cycles
SpecStation == Init /\ [][NextStationCreate \/ NextStationActivate \/ NextAuto]_vars

\* The rainfall observed by cycle c is outside the policy's rainfall range
breaches(c, policy) ==
    \/ cycles[c].weatherData.rainfall_mm < policy.weatherParameters.minRainfall
    \/ cycles[c].weatherData.rainfall_mm > policy.weatherParameters.maxRainfall

----------------------------------------------------------------------------
(* The end of the coverage window *)

\* Block times before, at and after the end of a policy's window
Times == {Today, Today + 200, Today + 201}

\* Time passes between two calls
Tick ==
    /\ \E t \in Times : t > blockTimestamp /\ blockTimestamp' = t
    /\ UNCHANGED <<contractVars, tokenVars, cycles, insurance, last>>

\* Creation, settlement, claims and payouts while time passes
SpecExpiry == Init /\ [][NextCreate(MaxPolicies) \/ NextActivate \/ NextPayout \/ Tick]_vars

\* The end of policy k's coverage window has passed
windowEnded(k) == blockTimestamp > policies[k].endDate

\* C32: after the end of a policy's coverage window no claim is accepted or
\* paid on that policy: no call made after the window end adds a claim for
\* the policy, and none adds to the policy's claimsPaid.
C32_NoClaimAfterWindowEnd ==
    [][\A k \in PolicyIds :
         (Has(policies, k) /\ windowEnded(k))
         => /\ \A c \in DOMAIN claims' \ DOMAIN claims : claims'[c].policyId # k
            /\ policies'[k].claimsPaid = policies[k].claimsPaid]_vars

----------------------------------------------------------------------------
(* The outcome of a payout transfer *)

\* The ft_transfer promise that triggerPayout created runs on the token in a
\* later block and succeeds or fails there.  triggerPayout attaches no
\* callback to the promise, so the contract's state is not touched.
ft_transfer_outcome(i, delivered) ==
    /\ i \in DOMAIN payouts
    /\ payouts[i].outcome = "pending"
    /\ payouts' = [payouts EXCEPT ![i].outcome = IF delivered THEN "delivered" ELSE "failed"]
    /\ UNCHANGED <<policies, claims, totalPolicies, totalClaims, totalPremiumsCollected,
                   totalClaimsPaid, owner, settlements, oracleVars>>
    /\ UNCHANGED <<tokenVars, cycles, blockTimestamp, insurance, last>>

NextOutcome == \E i \in 1..MaxPayouts, delivered \in BOOLEAN : ft_transfer_outcome(i, delivered)

\* Claims by the policies' owner with a temperature inside and outside the
\* policy's range
OutcomeTemps == {30, 45}
OutcomeRains == {300}
NextOutcomeFile ==
    /\ \E pred \in EvalUsers, k \in PolicyIds, t \in OutcomeTemps, r \in OutcomeRains :
          fileClaim(pred, k, t, r)
    /\ UNCHANGED <<cycles, blockTimestamp, insurance>>

\* Creation, settlement, evaluation of filed claims, and the outcomes of the
\* payout transfers
SpecOutcome == Init /\ [][NextCreateEval \/ NextActivate \/ NextOutcomeFile \/ NextOutcome]_vars

\* The payout promise issued by the step, if it issued one
issued == payouts'[Len(payouts')]

----------------------------------------------------------------------------
(* Payouts against coverage *)

\* C34: for every policy the cumulative claimsPaid never exceeds the
\* policy's coverageAmount.
C34_ClaimsPaidWithinCoverage ==
    \A k \in DOMAIN policies : policies[k].claimsPaid <= policies[k].coverageAmount

\* C35: for every policy, isActive is true exactly when status is active.
C35_IsActiveMatchesStatus ==
    \A k \in DOMAIN policies : policies[k].isActive <=> policies[k].status = "active"

\* C36: a policy whose status is claimed was active before it became
\* claimed, a claim for it is paid, and a payout transfer to its owner was
\* issued for it (claimsPaid > 0).
C36_ClaimedMeansPaid ==
    [][\A k \in DOMAIN policies' :
         policies'[k].status = "claimed"
         => /\ Has(policies, k) /\ policies[k].status \in {"active", "claimed"}
            /\ \E c \in DOMAIN claims' :
                  claims'[c].policyId = k /\ claims'[c].status = "paid"
            /\ policies'[k].claimsPaid > 0
            /\ \E i \in DOMAIN payouts' : payouts'[i].recipient = policies'[k].farmer]_vars

----------------------------------------------------------------------------
(* Premiums collected and tokens retained *)

\* C37: totalPremiumsCollected equals the tokens retained from settlements:
\* every ft_on_transfer call that completes adds to it the amount received
\* less the refund the call returns.
C37_PremiumsEqualRetained ==
    [][\A pred \in TransferCallers, s \in Users, a \in Amounts, m \in Msgs :
         (ft_on_transfer(pred, s, a, m) /\ last'.ok)
         => totalPremiumsCollected' - totalPremiumsCollected = a - last'.ret]_vars

----------------------------------------------------------------------------
(* Conservation of the token supply *)

\* The sum of the balances of the accounts in ids
RECURSIVE sumBalances(_)
sumBalances(ids) ==
    IF ids = {} THEN 0
    ELSE LET a == CHOOSE x \in ids : TRUE IN balances[a] + sumBalances(ids \ {a})

\* C38: in the mock USDC token the sum of all account balances equals
\* totalSupply after any sequence of ft_transfer, ft_transfer_call and mint
\* calls, also when sender and receiver are the same account.
C38_SupplyConserved == sumBalances(DOMAIN balances) = totalSupply

----------------------------------------------------------------------------
(* Payouts of the Solidity contract *)

NextInsurance ==
    \/ \E sender \in EvmCallers, st \in EvmStations, cov \in EvmCoverages,
          prem \in EvmPremiums, s \in EvmStarts, e \in EvmEnds, tr \in EvmTriggers :
          Insurance_createPolicy(sender, st, cov, prem, s, e, tr)
    \/ \E sender \in EvmCallers, k \in EvmPolicyIds, paid \in BOOLEAN :
          payPremium(sender, k, paid)
    \/ \E sender \in EvmCallers, a \in EvmFundings, paid \in BOOLEAN :
          fundInsurancePool(sender, a, paid)
    \/ \E sender \in EvmCallers, st \in EvmStations, t \in EvmTemperatures,
          p \in EvmPrecipitations :
          updateWeatherData(sender, st, t, p)
    \/ \E sender \in EvmCallers, k \in EvmPolicyIds : checkTriggers(sender, k)
    \/ \E sender \in EvmCallers, k \in EvmPolicyIds, tid \in EvmTriggerIds :
          Insurance_executePayout(sender, k, tid)

\* The calls of AgriGuardInsurance by any callers, while time passes
SpecInsurance == Init /\ [][NextInsurance \/ Tick]_vars

\* The number of payouts transferred for a trigger of a policy
payoutsFor(policyId, triggerId) ==
    Cardinality({i \in DOMAIN insurance.transfers :
                    /\ insurance.transfers[i].policyId = policyId
                    /\ insurance.transfers[i].triggerId = triggerId})

\* C39: in the Solidity contract each activated trigger of a policy is paid
\* out at most once, and a policy's totalPayouts never exceeds its
\* coverageAmount.
C39_TriggerPaidOnce ==
    \A k \in DOMAIN insurance.policies :
        /\ insurance.policies[k].totalPayouts <= insurance.policies[k].coverageAmount
        /\ \A tid \in EvmTriggerIds : payoutsFor(k, tid) <= 1

====
